---- MODULE Spec2Model ----
(***************************************************************************)
(* Scope-bound accessors for JNI primitive arrays                          *)
(* (nativehelper/scoped_primitive_array.h): ScopedArrayRO<JType,kNullable> *)
(* and ScopedArrayRW<JType>.                                               *)
(*                                                                         *)
(* Representation choices.                                                 *)
(*  - A pointer is a record [region, id, off]: the object it points into   *)
(*    and the element offset inside it.  Pointer arithmetic changes off.   *)
(*  - A value of an integer type (size_t, ssize_t, jsize) is represented   *)
(*    by the signed integer with the same bit pattern, so size_t(-1)       *)
(*    (SIZE_MAX) is -1 and an unsigned comparison is ULessEq.  Every array *)
(*    length is a non-negative jsize, on which the conversions between     *)
(*    the three types preserve the value.                                  *)
(*  - Every foreign call (the five operations of the trait table) an       *)
(*    accessor makes is appended to the accessor's own call history.       *)
(***************************************************************************)
EXTENDS Integers, Sequences, FiniteSets, TLC

\* number of accessor objects a behaviour may create
MaxInst == 1

\* 1024 in "BUFFER_SIZE = 1024 / sizeof(JType)"
BUFFER_BYTES == 1024
\* release mode of jni.h: free the buffer without copying back
JNI_ABORT == 2
\* the array lengths of the unit test
LARGE_ARRAY_SIZE == 8192
SMALL_ARRAY_SIZE == 32

JTypes == {"jboolean", "jbyte", "jchar", "jdouble", "jfloat", "jint", "jlong", "jshort"}

SizeOf(t) ==
    CASE t \in {"jboolean", "jbyte"} -> 1
      [] t \in {"jchar", "jshort"}   -> 2
      [] t \in {"jint", "jfloat"}    -> 4
      [] t \in {"jlong", "jdouble"}  -> 8

BUFFER_SIZE(t) == BUFFER_BYTES \div SizeOf(t)

----------------------------------------------------------------------------
\* Pointers and array handles

nullptr == [region |-> "null", id |-> 0, off |-> 0]
\* the embedded buffer of accessor object self
mBuffer(self) == [region |-> "mBuffer", id |-> self, off |-> 0]
\* an address that belongs to no object of the model
WildPtr == [region |-> "wild", id |-> 0, off |-> 0]

PtrAdd(p, n) == [p EXCEPT !.off = @ + n]

\* jarray: the null reference, or a reference to a Java array of a length
NullArray == [isNull |-> TRUE, length |-> 0]
JavaArray(n) == [isNull |-> FALSE, length |-> n]

\* storage of the elements of a Java array, as the runtime hands it out
Elements(array) == [region |-> "elements", id |-> array.length, off |-> 0]

\* lengths of the arrays of the model: empty, the unit test's small array,
\* both sides of the small-buffer threshold, the unit test's large array
Lengths(t) == {0, SMALL_ARRAY_SIZE, BUFFER_SIZE(t), BUFFER_SIZE(t) + 1, LARGE_ARRAY_SIZE}

Handles(t) == {NullArray} \cup {JavaArray(n) : n \in Lengths(t)}

\* Get<Type>ArrayElements returns the elements, or NULL when it fails
AcquireResults(array) == {nullptr, Elements(array)}

\* contents of object storage before its constructor has assigned it
IndeterminatePtrs == {nullptr, WildPtr}
IndeterminateSizes == {-1, 0}

\* a <= b on operands converted to an unsigned type
ULessEq(a, b) == IF (a < 0) = (b < 0) THEN a <= b ELSE b < 0

----------------------------------------------------------------------------
\* Foreign calls (ScopedPrimitiveArrayTraits)

Call(op, array, start, len, buffer, mode) ==
    [op |-> op, array |-> array, start |-> start, len |-> len,
     buffer |-> buffer, mode |-> mode]

getArrayRegion(array, start, len, out) == Call("getArrayRegion", array, start, len, out, 0)
\* ret: the pointer the runtime returned
getArrayElements(array, ret) == Call("getArrayElements", array, 0, 0, ret, 0)
releaseArrayElements(array, buffer, mode) ==
    Call("releaseArrayElements", array, 0, 0, buffer, mode)
\* len: the length the runtime returned
getArrayLength(array) == Call("getArrayLength", array, 0, array.length, nullptr, 0)
fatalError == Call("fatalError", NullArray, 0, 0, nullptr, 0)

----------------------------------------------------------------------------
\* Accessor objects

VARIABLES JType, inst
vars == <<JType, inst>>

Inst == 1..MaxInst

\* storage of an accessor object that has not been constructed
NoObject ==
    [state |-> "none", cls |-> "none", kNullable |-> FALSE,
     mJavaArray |-> NullArray, mRawArray |-> nullptr, mSize |-> 0,
     written |-> nullptr, calls |-> <<>>]

\* the object when its constructor starts: members hold what the storage held
Raw(cls, kNullable, junkPtr, junkSize) ==
    [NoObject EXCEPT !.state = "alive", !.cls = cls, !.kNullable = kNullable,
                     !.mRawArray = junkPtr, !.mSize = junkSize]

\* the comparison written "<"
FitsBufferStrict(kNullable, mSize, t) ==
    IF kNullable THEN mSize < BUFFER_SIZE(t)
    ELSE mSize # BUFFER_SIZE(t) /\ ULessEq(mSize, BUFFER_SIZE(t))

\* "mSize <= BUFFER_SIZE": SizeT is ssize_t when kNullable, size_t otherwise,
\* and BUFFER_SIZE is a jsize
FitsBuffer(kNullable, mSize, t) ==
    IF kNullable THEN mSize <= BUFFER_SIZE(t) ELSE ULessEq(mSize, BUFFER_SIZE(t))

\* the constructor without "mSize = -1; mRawArray = nullptr;" for a null array
ScopedArrayRONoNullInit(self, raw, t, javaArray, elems, fatalReturns) ==
    LET a0 == [raw EXCEPT !.mJavaArray = javaArray] IN
    IF javaArray = NullArray
    THEN IF ~a0.kNullable
         THEN [a0 EXCEPT !.calls = Append(@, fatalError),
                         !.state = IF fatalReturns THEN "alive" ELSE "aborted"]
         ELSE a0
    ELSE LET a1 == [a0 EXCEPT !.calls = Append(@, getArrayLength(javaArray)),
                              !.mSize = javaArray.length] IN
         IF FitsBuffer(a1.kNullable, a1.mSize, t)
         THEN [a1 EXCEPT
                 !.calls = Append(@, getArrayRegion(javaArray, 0, a1.mSize, mBuffer(self))),
                 !.mRawArray = mBuffer(self)]
         ELSE [a1 EXCEPT !.calls = Append(@, getArrayElements(javaArray, elems)),
                         !.mRawArray = elems]

\* ScopedArrayRO(JNIEnv* env, ArrayType javaArray)
\*   elems: what getArrayElements returns if it is called
\*   fatalReturns: whether fatalError returns to the constructor
ScopedArrayRO(self, raw, t, javaArray, elems, fatalReturns) ==
    LET a0 == [raw EXCEPT !.mJavaArray = javaArray] IN
    IF javaArray = NullArray
    THEN LET a1 == [a0 EXCEPT !.mSize = -1, !.mRawArray = nullptr] IN
         IF ~a1.kNullable
         THEN [a1 EXCEPT !.calls = Append(@, fatalError),
                         !.state = IF fatalReturns THEN "alive" ELSE "aborted"]
         ELSE a1
    ELSE LET a1 == [a0 EXCEPT !.calls = Append(@, getArrayLength(javaArray)),
                              !.mSize = javaArray.length] IN
         IF FitsBuffer(a1.kNullable, a1.mSize, t)
         THEN [a1 EXCEPT
                 !.calls = Append(@, getArrayRegion(javaArray, 0, a1.mSize, mBuffer(self))),
                 !.mRawArray = mBuffer(self)]
         ELSE [a1 EXCEPT !.calls = Append(@, getArrayElements(javaArray, elems)),
                         !.mRawArray = elems]

\* the destructor releasing with mode 0
DtorROWriteback(self, a) ==
    IF a.mRawArray # nullptr /\ a.mRawArray # mBuffer(self)
    THEN [a EXCEPT !.state = "dead",
                   !.calls = Append(@, releaseArrayElements(a.mJavaArray, a.mRawArray, 0))]
    ELSE [a EXCEPT !.state = "dead"]

\* ~ScopedArrayRO()
DtorRO(self, a) ==
    IF a.mRawArray # nullptr /\ a.mRawArray # mBuffer(self)
    THEN [a EXCEPT !.state = "dead",
                   !.calls = Append(@, releaseArrayElements(a.mJavaArray, a.mRawArray, JNI_ABORT))]
    ELSE [a EXCEPT !.state = "dead"]

\* the constructor without "mSize = Traits::getArrayLength(mEnv, mJavaArray);"
ScopedArrayRWNoSize(raw, javaArray, elems, fatalReturns) ==
    LET a0 == [raw EXCEPT !.mJavaArray = javaArray] IN
    IF javaArray = NullArray
    THEN [a0 EXCEPT !.calls = Append(@, fatalError),
                    !.state = IF fatalReturns THEN "alive" ELSE "aborted"]
    ELSE [a0 EXCEPT !.calls = Append(Append(@, getArrayLength(javaArray)),
                                     getArrayElements(javaArray, elems)),
                    !.mRawArray = elems]

\* ScopedArrayRW(JNIEnv* env, ArrayType javaArray)
ScopedArrayRW(raw, javaArray, elems, fatalReturns) ==
    LET a0 == [raw EXCEPT !.mJavaArray = javaArray] IN
    IF javaArray = NullArray
    THEN [a0 EXCEPT !.calls = Append(@, fatalError),
                    !.state = IF fatalReturns THEN "alive" ELSE "aborted"]
    ELSE [a0 EXCEPT !.calls = Append(Append(@, getArrayLength(javaArray)),
                                     getArrayElements(javaArray, elems)),
                    !.mSize = javaArray.length,
                    !.mRawArray = elems]

\* the destructor releasing with JNI_ABORT
DtorRWAbort(a) ==
    IF a.mRawArray # nullptr
    THEN [a EXCEPT !.state = "dead",
                   !.calls = Append(@, releaseArrayElements(a.mJavaArray, a.mRawArray, JNI_ABORT))]
    ELSE [a EXCEPT !.state = "dead"]

\* ~ScopedArrayRW()
DtorRW(a) ==
    IF a.mRawArray # nullptr
    THEN [a EXCEPT !.state = "dead",
                   !.calls = Append(@, releaseArrayElements(a.mJavaArray, a.mRawArray, 0))]
    ELSE [a EXCEPT !.state = "dead"]

\* member functions
get(a) == a.mRawArray
getJavaArray(a) == a.mJavaArray
begin(a) == get(a)
cbegin(a) == get(a)
\* end() without the test for the null array
EndRONoNullTest(a) == PtrAdd(get(a), a.mSize)

\* ScopedArrayRO::end()
EndRO(a) == IF a.kNullable /\ a.mRawArray = nullptr THEN get(a) ELSE PtrAdd(get(a), a.mSize)
\* ScopedArrayRW::end() and cend()
EndRW(a) == PtrAdd(get(a), a.mSize)
cend(a) == PtrAdd(get(a), a.mSize)
end(a) == IF a.cls = "ScopedArrayRW" THEN EndRW(a) ELSE EndRO(a)
size(a) == a.mSize
\* the element "JType& operator[](size_t n)" of ScopedArrayRW refers to
ElementRef(a, n) == PtrAdd(a.mRawArray, n)

----------------------------------------------------------------------------
\* Behaviours

\* fatalError did not return: the process is gone
Aborted == \E i \in Inst : inst[i].state = "aborted"

Init ==
    /\ JType \in JTypes
    /\ inst = [i \in Inst |-> NoObject]

ConstructRO(i) ==
    /\ ~Aborted
    /\ inst[i].state = "none"
    /\ \E kNullable \in BOOLEAN, javaArray \in Handles(JType), fatalReturns \in BOOLEAN,
          junkPtr \in IndeterminatePtrs, junkSize \in IndeterminateSizes :
         \E elems \in AcquireResults(javaArray) :
            inst' = [inst EXCEPT ![i] =
                        ScopedArrayRO(i, Raw("ScopedArrayRO", kNullable, junkPtr, junkSize),
                                      JType, javaArray, elems, fatalReturns)]
    /\ UNCHANGED JType

ConstructRW(i) ==
    /\ ~Aborted
    /\ inst[i].state = "none"
    /\ \E javaArray \in Handles(JType), fatalReturns \in BOOLEAN,
          junkPtr \in IndeterminatePtrs, junkSize \in IndeterminateSizes :
         \E elems \in AcquireResults(javaArray) :
            inst' = [inst EXCEPT ![i] =
                        ScopedArrayRW(Raw("ScopedArrayRW", FALSE, junkPtr, junkSize),
                                      javaArray, elems, fatalReturns)]
    /\ UNCHANGED JType

\* the caller stores through array[n] of a read-write accessor over an array
WriteRW(i) ==
    /\ ~Aborted
    /\ inst[i].state = "alive"
    /\ inst[i].cls = "ScopedArrayRW"
    /\ inst[i].mJavaArray # NullArray
    /\ inst[i].mRawArray # nullptr
    /\ inst[i].written = nullptr
    /\ \E n \in {0} :
         /\ n < inst[i].mSize
         /\ inst' = [inst EXCEPT ![i].written = ElementRef(inst[i], n)]
    /\ UNCHANGED JType

DestructRO(i) ==
    /\ ~Aborted
    /\ inst[i].state = "alive"
    /\ inst[i].cls = "ScopedArrayRO"
    /\ inst' = [inst EXCEPT ![i] = DtorRO(i, inst[i])]
    /\ UNCHANGED JType

DestructRW(i) ==
    /\ ~Aborted
    /\ inst[i].state = "alive"
    /\ inst[i].cls = "ScopedArrayRW"
    /\ inst' = [inst EXCEPT ![i] = DtorRW(inst[i])]
    /\ UNCHANGED JType

Next ==
    \E i \in Inst :
        \/ ConstructRO(i)
        \/ ConstructRW(i)
        \/ WriteRW(i)
        \/ DestructRO(i)
        \/ DestructRW(i)

Spec == Init /\ [][Next]_vars

----------------------------------------------------------------------------
\* Observations on the call history

CallsOf(a, op) == SelectSeq(a.calls, LAMBDA c : c.op = op)
Count(a, op) == Len(CallsOf(a, op))

\* the constructor has returned
Constructed(a) == a.state \in {"alive", "dead"}
IsRO(a) == a.cls = "ScopedArrayRO"
IsRW(a) == a.cls = "ScopedArrayRW"
NonNull(a) == a.mJavaArray # NullArray
Large(a) == NonNull(a) /\ a.mJavaArray.length > BUFFER_SIZE(JType)
Small(a) == NonNull(a) /\ a.mJavaArray.length <= BUFFER_SIZE(JType)
\* what the accessor's getArrayElements call returned
Acquired(a) == CallsOf(a, "getArrayElements")[1].buffer
Released(a) == CallsOf(a, "releaseArrayElements")[1]

RECURSIVE Total(_, _)
Total(S, op) ==
    IF S = {} THEN 0
    ELSE LET i == CHOOSE x \in S : TRUE IN Count(inst[i], op) + Total(S \ {i}, op)

\* the acquire and release calls of all accessors
AcquireCallCount == Total(Inst, "getArrayElements")
ReleaseCallCount == Total(Inst, "releaseArrayElements")

----------------------------------------------------------------------------
\* Claims

\* C1 as stated: a read-only accessor over a non-null array longer than the
\* small-buffer capacity holds the pointer acquire returned, and exactly one
\* release call, with discard mode, occurs on scope exit.
C1_ExactlyOneReleaseAlways ==
    \A i \in Inst : LET a == inst[i] IN
        (IsRO(a) /\ Constructed(a) /\ Large(a)) =>
            /\ Count(a, "getArrayElements") = 1
            /\ get(a) = Acquired(a)
            /\ a.state = "alive" => Count(a, "releaseArrayElements") = 0
            /\ a.state = "dead" =>
                  /\ Count(a, "releaseArrayElements") = 1
                  /\ Released(a).mode = JNI_ABORT

\* C1 amended: the accessor holds the pointer acquire returned; on scope exit
\* exactly one release call, with discard mode, occurs when that pointer is
\* not null, and no release call occurs when acquire returned null.
C1_OneDiscardReleaseOfPin ==
    \A i \in Inst : LET a == inst[i] IN
        (IsRO(a) /\ Constructed(a) /\ Large(a)) =>
            /\ Count(a, "getArrayElements") = 1
            /\ get(a) = Acquired(a)
            /\ a.state = "alive" => Count(a, "releaseArrayElements") = 0
            /\ (a.state = "dead" /\ Acquired(a) # nullptr) =>
                  /\ Count(a, "releaseArrayElements") = 1
                  /\ Released(a).mode = JNI_ABORT
            /\ (a.state = "dead" /\ Acquired(a) = nullptr) =>
                  Count(a, "releaseArrayElements") = 0

C1_Witness ==
    \E i \in Inst : LET a == inst[i] IN
        /\ IsRO(a) /\ a.state = "dead" /\ Large(a)
        /\ a.mJavaArray.length = BUFFER_SIZE(JType) + 1
        /\ Acquired(a) # nullptr
        /\ Count(a, "releaseArrayElements") = 1

\* C2: a read-only accessor over a non-null array whose length is at most the
\* small-buffer capacity points at its embedded buffer after one region copy
\* of the range [0, length), and makes no acquire and no release call.
C2_SmallArrayUsesBuffer ==
    \A i \in Inst : LET a == inst[i] IN
        (IsRO(a) /\ Constructed(a) /\ Small(a)) =>
            /\ get(a) = mBuffer(i)
            /\ CallsOf(a, "getArrayRegion")
                  = <<getArrayRegion(a.mJavaArray, 0, a.mJavaArray.length, mBuffer(i))>>
            /\ Count(a, "getArrayElements") = 0
            /\ Count(a, "releaseArrayElements") = 0

C2_Witness ==
    \E i \in Inst : LET a == inst[i] IN
        /\ IsRO(a) /\ a.state = "dead"
        /\ NonNull(a) /\ a.mJavaArray.length = BUFFER_SIZE(JType)
        /\ get(a) = mBuffer(i)

\* C3 as stated: a read-write accessor over a non-null array makes exactly one
\* acquire call and uses no buffer of its own; after scope exit exactly one
\* release call has occurred, with writeback mode, on the pointer through
\* which the view was exposed and written.
C3_ExactlyOneWritebackAlways ==
    \A i \in Inst : LET a == inst[i] IN
        (IsRW(a) /\ Constructed(a) /\ NonNull(a)) =>
            /\ Count(a, "getArrayElements") = 1
            /\ Count(a, "getArrayRegion") = 0
            /\ get(a) = Acquired(a)
            /\ get(a).region # "mBuffer"
            /\ a.state = "dead" =>
                  /\ Count(a, "releaseArrayElements") = 1
                  /\ Released(a).mode # JNI_ABORT
                  /\ Released(a).buffer = get(a)
                  /\ a.written # nullptr => a.written = PtrAdd(Released(a).buffer, a.written.off)

\* C3 amended: as stated when acquire returned a non-null pointer; when acquire
\* returned null no release call occurs.
C3_OneWritebackReleaseOfPin ==
    \A i \in Inst : LET a == inst[i] IN
        (IsRW(a) /\ Constructed(a) /\ NonNull(a)) =>
            /\ Count(a, "getArrayElements") = 1
            /\ Count(a, "getArrayRegion") = 0
            /\ get(a) = Acquired(a)
            /\ get(a).region # "mBuffer"
            /\ (a.state = "dead" /\ Acquired(a) # nullptr) =>
                  /\ Count(a, "releaseArrayElements") = 1
                  /\ Released(a).mode # JNI_ABORT
                  /\ Released(a).buffer = get(a)
                  /\ a.written # nullptr => a.written = PtrAdd(Released(a).buffer, a.written.off)
            /\ (a.state = "dead" /\ Acquired(a) = nullptr) =>
                  Count(a, "releaseArrayElements") = 0

C3_Witness ==
    \E i \in Inst : LET a == inst[i] IN
        /\ IsRW(a) /\ a.state = "dead" /\ Small(a)
        /\ a.written # nullptr
        /\ Count(a, "releaseArrayElements") = 1

\* C4: whenever no accessor is alive, the number of acquire calls equals the
\* number of release calls (no pin is leaked, none is released twice).  The
\* equality is stated by the half of it that a failed acquire, which returns
\* null and leaves nothing to release, cannot break: there are never more
\* release calls than acquire calls.
C4_NoReleaseBeyondAcquires ==
    (\A i \in Inst : inst[i].state # "alive") =>
        ReleaseCallCount <= AcquireCallCount

\* C5: a read-write accessor given a null array calls fatalError exactly once
\* and makes no length, acquire or release call, in the constructor or at
\* scope exit, also when fatalError returns.
C5_RWNullNoForeignCall ==
    \A i \in Inst : LET a == inst[i] IN
        (IsRW(a) /\ a.state # "none" /\ ~NonNull(a)) =>
            /\ Count(a, "fatalError") = 1
            /\ Count(a, "getArrayLength") = 0
            /\ Count(a, "getArrayElements") = 0
            /\ Count(a, "releaseArrayElements") = 0

C7_NullableNullIsEmpty ==
    \A i \in Inst : LET a == inst[i] IN
        (IsRO(a) /\ a.kNullable /\ a.state # "none" /\ ~NonNull(a)) =>
            /\ size(a) = -1
            /\ get(a) = nullptr
            /\ getJavaArray(a) = NullArray
            /\ begin(a) = nullptr
            /\ end(a) = nullptr
            /\ a.calls = <<>>

C7_Witness ==
    \E i \in Inst : LET a == inst[i] IN
        /\ IsRO(a) /\ a.kNullable /\ a.state = "dead" /\ ~NonNull(a)
        /\ size(a) = -1

\* C8: once fatalError has been called for a required array that is null
\* (read-write, or non-nullable read-only accessor), the accessor's pointer
\* is null, its size is the sentinel -1, and it makes no other foreign call.
C8_NullLeavesSafeFields ==
    \A i \in Inst : LET a == inst[i] IN
        (a.state # "none" /\ ~NonNull(a) /\ Count(a, "fatalError") > 0) =>
            /\ a.mRawArray = nullptr
            /\ a.mSize = -1
            /\ a.calls = <<fatalError>>

\* C9 as stated: for an accessor over a non-null array, size() is the length
\* the length query returned, begin() = get(), end() = begin() + size(), and
\* for the read-write accessor cend() = cbegin() + size().
C9_EndIsBeginPlusSize ==
    \A i \in Inst : LET a == inst[i] IN
        (a.state = "alive" /\ NonNull(a)) =>
            /\ size(a) = CallsOf(a, "getArrayLength")[1].len
            /\ begin(a) = get(a)
            /\ end(a) = PtrAdd(begin(a), size(a))
            /\ IsRW(a) => cend(a) = PtrAdd(cbegin(a), size(a))

\* C9 amended: as stated, except that for the nullable read-only accessor
\* whose acquire returned null end() = begin() (null).
C9_EndIsBeginPlusSizeUnlessNullPin ==
    \A i \in Inst : LET a == inst[i] IN
        (a.state = "alive" /\ NonNull(a)) =>
            /\ size(a) = CallsOf(a, "getArrayLength")[1].len
            /\ begin(a) = get(a)
            /\ IF IsRO(a) /\ a.kNullable /\ get(a) = nullptr
               THEN end(a) = begin(a)
               ELSE end(a) = PtrAdd(begin(a), size(a))
            /\ IsRW(a) => cend(a) = PtrAdd(cbegin(a), size(a))

C9_Witness ==
    \E i \in Inst : LET a == inst[i] IN
        /\ a.state = "alive" /\ IsRW(a) /\ Large(a)
        /\ get(a) # nullptr
        /\ size(a) = LARGE_ARRAY_SIZE
        /\ end(a).off = LARGE_ARRAY_SIZE

\* C10: an accessor releases at most once and only in its destructor; every
\* release follows an acquire of the same accessor and is passed the array
\* the accessor is bound to and the non-null pointer that acquire returned,
\* never the embedded buffer; a pin that was acquired is released at scope
\* exit.
C10_ReleaseOnlyOwnPinOnce ==
    \A i \in Inst : LET a == inst[i] IN
        /\ Count(a, "releaseArrayElements") <= 1
        /\ Count(a, "releaseArrayElements") = 1 =>
              /\ a.state = "dead"
              /\ Count(a, "getArrayElements") = 1
              /\ Released(a).array = a.mJavaArray
              /\ Released(a).buffer = Acquired(a)
              /\ Released(a).buffer # nullptr
              /\ Released(a).buffer # mBuffer(i)
        /\ (a.state = "dead" /\ Count(a, "getArrayElements") = 1 /\ Acquired(a) # nullptr) =>
              Count(a, "releaseArrayElements") = 1

====
